---------------------------- MODULE Spec2Model ----------------------------
(***************************************************************************)
(* A model of the waveform acquisition and block decoding of ds1054z       *)
(* (src/ds1054z/__init__.py, class DS1054Z).                               *)
(*                                                                         *)
(* Two specifications share the module:                                    *)
(*   DecodeSpec  the static method decode_ieee_block applied to every      *)
(*               byte buffer of a bounded length over a small alphabet;    *)
(*   Spec        one DS1054Z instance talking to one oscilloscope: the     *)
(*               calls get_waveform_bytes / get_waveform_samples, the      *)
(*               properties memory_depth_internal_total,                   *)
(*               memory_depth_curr_waveform and waveform_preamble(_dict),  *)
(*               and the setters timebase_scale, set_probe_ratio and       *)
(*               set_channel_scale, one step per instrument round trip,    *)
(*               with the instrument's answers as nondeterministic inputs; *)
(*               any round trip may instead raise the transport's          *)
(*               exception.                                                *)
(*                                                                         *)
(* Byte buffers of waveform data are kept as run-length sequences of       *)
(* segments [kind, first, n]: n consecutive elements that are instrument   *)
(* bytes first..first+n-1 of the selected window ("data"), 0x00 padding    *)
(* bytes ("zero"), or, once converted, voltages ("volt", "voltzero") and   *)
(* float('nan') values ("nan").                                            *)
(***************************************************************************)
EXTENDS Integers, Sequences, FiniteSets, TLC

VARIABLES
    \* ---- decode_ieee_block, checked on its own
    ieee_bytes,      \* the argument: a sequence of one-character strings
    dec,             \* its outcome: [kind, data, exc]
    \* ---- the DS1054Z instance
    mask_begin_num,  \* self.mask_begin_num: None (<<>>) or <<at_begin, num>>
    \* ---- the call in progress: its position, arguments and locals
    pc,
    op,              \* the public method, property or setter called
    channel,         \* the channel argument (a record, see Channels)
    mode,            \* the mode argument
    path,            \* which of _get_waveform_bytes_{screen,internal} was entered
    sel_status,      \* the answer to :TRIGger:STATus? read on line 243 or 525
    pnts,            \* wp['pnts']
    starting_at,
    stopping_at,
    buff,
    pos,
    end_pos,
    readback,        \* the answer to :WAVeform:STARt? on line 272 (0: not asked)
    last_status,     \* the latest answer to :TRIGger:STATus? within the call
    curr_running,    \* memory_depth_internal_total: the run state snapshot
    curr_mode,       \* memory_depth_internal_total: the read-mode snapshot
    mdep,            \* memory_depth_internal_total: the depth found so far
    ret,             \* what the call returned or raised
    \* ---- what went over the wire during the call (history)
    sent,            \* the commands written and queried, in order
    windows,         \* per :WAVeform:DATA? request <<start, stop, bytes answered>>
    mask_at_call,    \* mask_begin_num when the call started
    mode_at_call,    \* scope_mode when memory_depth_internal_total was called
    fault,           \* position in sent of the command that failed: the
                     \* transport raised, or (memory_depth_internal_total) its
                     \* answer could not be parsed; 0 if none did
    fetched,         \* what the get_waveform_bytes call before a call of
                     \* memory_depth_curr_waveform returned (NoFetch otherwise)
    \* ---- the setters and waveform_preamble read on its own
    requested,       \* the value asked for: ratio, new_timebase or volts
    use_closest_match,
    probe_ratio,     \* the answer to :CHANx:PROBe? (NoNumber: not asked)
    new_value,       \* the value to write: after line 387, 615 or 679, or volts
    wp_answer,       \* the answer waveform_preamble, read on its own, received
    scope_touched,   \* memory_depth_internal_total was called last, and the
                     \* acquisition started or stopped on its own since
    \* ---- the oscilloscope
    acquiring,       \* whether the acquisition is running
    scope_mode       \* the instrument's :WAVeform:MODE

decode_vars == <<ieee_bytes, dec>>
depth_locals == <<curr_running, curr_mode, mdep>>
more_locals == <<requested, use_closest_match, probe_ratio, new_value, wp_answer>>
locals == <<path, sel_status, pnts, starting_at, stopping_at, buff, pos, end_pos,
            readback, last_status, depth_locals, more_locals>>
args == <<op, channel, mode, mask_at_call, mode_at_call, fetched>>
scope == <<acquiring, scope_mode>>
vars == <<ieee_bytes, dec, mask_begin_num, pc, op, channel, mode, path,
          sel_status, pnts, starting_at, stopping_at, buff, pos, end_pos,
          readback, ret, sent, windows, mask_at_call, acquiring, scope_mode,
          last_status, curr_running, curr_mode, mdep, mode_at_call, fault,
          scope_touched, fetched, requested, use_closest_match, probe_ratio,
          new_value, wp_answer>>

Min(a, b) == IF a < b THEN a ELSE b
Max(a, b) == IF a > b THEN a ELSE b

(***************************************************************************)
(* Bounds of the model.                                                    *)
(***************************************************************************)
\* longest buffer handed to decode_ieee_block in DecodeSpec
MaxBufLen == 6
\* most :WAVeform:DATA? requests followed within one fetch
MaxRequests == 3

(***************************************************************************)
(* Python built-ins used by decode_ieee_block.                             *)
(***************************************************************************)
\* the byte values buffers are drawn from; all of them are ASCII
ByteAlphabet == {"#", "0", "1", "2", "a", "-"}

IsDigit(c) == c \in {"0", "1", "2", "3", "4", "5", "6", "7", "8", "9"}

DigitVal(c) ==
    CASE c = "0" -> 0 [] c = "1" -> 1 [] c = "2" -> 2 [] c = "3" -> 3
      [] c = "4" -> 4 [] c = "5" -> 5 [] c = "6" -> 6 [] c = "7" -> 7
      [] c = "8" -> 8 [] c = "9" -> 9

RECURSIVE DigitsVal(_)
DigitsVal(s) ==
    IF s = <<>> THEN 0
    ELSE 10 * DigitsVal(SubSeq(s, 1, Len(s) - 1)) + DigitVal(s[Len(s)])

AllDigits(s) == \A i \in 1..Len(s) : IsDigit(s[i])

\* int(str): an optional sign, then one or more decimal digits; anything else
\* raises ValueError.  (Surrounding whitespace and single underscores between
\* digits, which int() also accepts, are not in ByteAlphabet.)
PyInt(s) ==
    LET signed == Len(s) >= 1 /\ s[1] \in {"-", "+"}
        digits == IF signed THEN Tail(s) ELSE s
    IN  IF digits # <<>> /\ AllDigits(digits)
        THEN [ok |-> TRUE,
              val |-> IF signed /\ s[1] = "-" THEN 0 - DigitsVal(digits)
                      ELSE DigitsVal(digits)]
        ELSE [ok |-> FALSE, val |-> 0]

\* s[lo:hi] with 0-based bounds: a negative bound counts from the end, every
\* bound is clamped to the sequence, and an empty range gives the empty sequence
PySliceIndex(i, len) == IF i < 0 THEN Max(0, len + i) ELSE Min(i, len)

PySlice(s, lo, hi) ==
    LET a == PySliceIndex(lo, Len(s))
        b == PySliceIndex(hi, Len(s))
    IN  IF a >= b THEN <<>> ELSE SubSeq(s, a + 1, b)

(***************************************************************************)
(* decode_ieee_block (lines 469-484), Python 3 branch.                     *)
(***************************************************************************)
Pending == [kind |-> "pending", data |-> <<>>, exc |-> ""]
Raised(e) == [kind |-> "raised", data |-> <<>>, exc |-> e]
Returned(d) == [kind |-> "returned", data |-> d, exc |-> ""]

\* a variant that takes the header to be one byte shorter
n_header_bytes_short(digit) == digit + 1

\* n_header_bytes = int(chr(ieee_bytes[1]))+2
n_header_bytes(digit) == digit + 2

decode_ieee_block(b) ==
    IF Len(b) < 2 THEN Raised("IndexError")
    ELSE LET d == PyInt(<<b[2]>>) IN
         IF ~d.ok THEN Raised("ValueError")
         ELSE LET h == n_header_bytes(d.val)
                  n_data_bytes == PyInt(PySlice(b, 2, h))
              IN  IF ~n_data_bytes.ok THEN Raised("ValueError")
                  ELSE Returned(PySlice(b, h, h + n_data_bytes.val))

RECURSIVE SeqsUpTo(_, _)
SeqsUpTo(S, n) ==
    IF n = 0 THEN {<<>>}
    ELSE LET shorter == SeqsUpTo(S, n - 1)
         IN  shorter \cup {Append(s, c) : s \in {t \in shorter : Len(t) = n - 1}, c \in S}

Buffers == SeqsUpTo(ByteAlphabet, MaxBufLen)

Decode ==
    /\ dec = Pending
    /\ dec' = decode_ieee_block(ieee_bytes)
    /\ UNCHANGED <<ieee_bytes, mask_begin_num, pc, ret, sent, windows>>
    /\ UNCHANGED <<args, locals, scope, fault, scope_touched>>


(***************************************************************************)
(* Program constants and the inputs of the driver model.                   *)
(***************************************************************************)
SAMPLES_ON_DISPLAY == 1200
max_byte_len == 250000

\* the channel argument: an int (a channel number) or a str (a channel name)
Channels == {[isint |-> TRUE, name |-> "1"], [isint |-> FALSE, name |-> "CHAN2"]}
Modes == {"NORMal", "MAXimum", "RAW"}
\* the point counts a :WAVeform:PREamble? answer may report
PntsValues == {1, 1000, 1199, 1200, 1201, 250000, 250001, 600000}
\* the answers to :TRIGger:STATus?
LiveStatus == {"TD", "WAIT", "RUN", "AUTO"}
StatusAnswers(acq) == IF acq THEN LiveStatus ELSE {"STOP"}

None == <<>>

\* a depth: the text of an answer that is not a number yet, or the number
NoDepth == [text |-> "", num |-> 0]
Depth(n) == [text |-> "", num |-> n]

\* the answers to :ACQuire:MDEPth?: AUTO, or a number of points
MdepAnswers ==
    {[text |-> "AUTO", num |-> 0], [text |-> "12000", num |-> 0],
     [text |-> "600000", num |-> 0], [text |-> "2.4e+07", num |-> 0]}

\* the characters of a numeric answer to :ACQuire:MDEPth?
DepthChars(text) ==
    CASE text = "12000" -> <<"1", "2", "0", "0", "0">>
      [] text = "600000" -> <<"6", "0", "0", "0", "0", "0">>
      [] text = "2.4e+07" -> <<"2", ".", "4", "e", "+", "0", "7">>

\* the instrument's answer to :WAVeform:MODE? for the mode last written to it
ModeAnswer(written) ==
    CASE written \in {"NORMal", "NORM"} -> "NORM"
      [] written \in {"MAXimum", "MAX"} -> "MAX"
      [] written = "RAW" -> "RAW"

\* the characters of an answer to :WAVeform:MODE?
Chars(answer) ==
    CASE answer = "NORM" -> <<"N", "O", "R", "M">>
      [] answer = "MAX" -> <<"M", "A", "X">>
      [] answer = "RAW" -> <<"R", "A", "W">>

\* _interpret_channel (lines 111-115)
_interpret_channel(c) ==
    IF c.isint THEN [isint |-> FALSE, name |-> "CHAN" \o c.name] ELSE c

\* mode.upper(), spelled out for the strings of Modes
Upper(m) ==
    CASE m = "NORMal" -> <<"N", "O", "R", "M", "A", "L">>
      [] m = "MAXimum" -> <<"M", "A", "X", "I", "M", "U", "M">>
      [] m = "RAW" -> <<"R", "A", "W">>

\* str.startswith
StartsWith(s, prefix) ==
    Len(s) >= Len(prefix) /\ SubSeq(s, 1, Len(prefix)) = prefix

\* a variant that does not take AUTO for a running acquisition
running_no_auto(answer) == answer \in {"TD", "WAIT", "RUN"}

\* the property running (lines 117-119), given the answer to the query
running(answer) == answer \in {"TD", "WAIT", "RUN", "AUTO"}

(***************************************************************************)
(* Buffers as sequences of segments.                                       *)
(***************************************************************************)
Seg(k, f, n) == [kind |-> k, first |-> f, n |-> n]

\* n elements of one kind; the empty sequence when n = 0
Run(k, f, n) == IF n > 0 THEN <<Seg(k, f, n)>> ELSE <<>>

RECURSIVE BufLen(_)
BufLen(b) == IF b = <<>> THEN 0 ELSE Head(b).n + BufLen(Tail(b))

\* the first k elements of b, and b without its first k elements
RECURSIVE SegTake(_, _)
SegTake(b, k) ==
    IF k <= 0 \/ b = <<>> THEN <<>>
    ELSE IF Head(b).n <= k THEN <<Head(b)>> \o SegTake(Tail(b), k - Head(b).n)
    ELSE <<[Head(b) EXCEPT !.n = k]>>

RECURSIVE SegDrop(_, _)
SegDrop(b, k) ==
    IF k <= 0 \/ b = <<>> THEN b
    ELSE IF Head(b).n <= k THEN SegDrop(Tail(b), k - Head(b).n)
    ELSE <<[Head(b) EXCEPT !.n = @ - k,
                           !.first = IF Head(b).kind \in {"data", "volt"}
                                     THEN @ + k ELSE @]>> \o Tail(b)

\* what the instrument may answer to :WAVeform:DATA? for the window
\* start..stop: all of its points, none, or one point less
DataLens(start, stop) ==
    LET full == Max(0, stop - start + 1)
    IN  {0, full} \cup (IF full > 1 THEN {full - 1} ELSE {})

\* decode_ieee_block on the answer to :WAVeform:DATA?: a well-formed block
\* whose payload is n bytes of the window starting at start
decode_block(start, n) == Run("data", start, n)

NoRet == [kind |-> "none", val |-> <<>>, exc |-> ""]
RetBytes(b) == [kind |-> "bytes", val |-> b, exc |-> ""]
RetSamples(s) == [kind |-> "samples", val |-> s, exc |-> ""]
RetRaised(e) == [kind |-> "raised", val |-> <<>>, exc |-> e]

\* self.write(cmd) and self.query(cmd): the command goes over the wire
Wire(cmd) == sent' = Append(sent, cmd)

(***************************************************************************)
(* Numbers with a fractional part.  A float that was written with a few    *)
(* decimal digits is kept as m * 10^e with m a natural number; sums and    *)
(* differences are taken exactly on two limbs <<hi, lo>> that stand for    *)
(* (hi * 10^6 + lo) * 10^-10, because 10^-10 .. 10^5 does not fit one      *)
(* 32-bit integer.                                                         *)
(***************************************************************************)
Dec(m, e) == [m |-> m, e |-> e]
NoNumber == [m |-> 0, e |-> 0]

RECURSIVE Pow10(_)
Pow10(n) == IF n = 0 THEN 1 ELSE 10 * Pow10(n - 1)

\* the limbs of d; d is a multiple of 10^-10 below 2 * 10^15
Limbs(d) ==
    LET shift == d.e + 10
    IN  IF shift >= 6
        THEN <<d.m * Pow10(shift - 6), 0>>
        ELSE <<(d.m * Pow10(shift)) \div Pow10(6), (d.m * Pow10(shift)) % Pow10(6)>>

\* a < b and a = b on limbs
LimbsLess(a, b) == a[1] < b[1] \/ (a[1] = b[1] /\ a[2] < b[2])

\* abs(a - b) on limbs
LimbsAbsDiff(a, b) ==
    LET big == IF LimbsLess(a, b) THEN b ELSE a
        small == IF LimbsLess(a, b) THEN a ELSE b
    IN  IF big[2] >= small[2]
        THEN <<big[1] - small[1], big[2] - small[2]>>
        ELSE <<big[1] - small[1] - 1, big[2] + Pow10(6) - small[2]>>

\* a <= b, a < b and abs(a - b) for numbers
Leq(a, b) == ~LimbsLess(Limbs(b), Limbs(a))
Less(a, b) == LimbsLess(Limbs(a), Limbs(b))
AbsDiff(a, b) == LimbsAbsDiff(Limbs(a), Limbs(b))

\* a * b
Times(a, b) == Dec(a.m * b.m, a.e + b.e)

(***************************************************************************)
(* _populate_possible_values (lines 322-346) and the class attributes it   *)
(* reads (lines 39-45).                                                    *)
(***************************************************************************)
SCALE_MANTISSAE == <<1, 2, 5>>
MIN_TIMEBASE_SCALE == Dec(5, -9)
MAX_TIMEBASE_SCALE == Dec(50, 0)
MIN_CHANNEL_SCALE == Dec(1, -3)
MAX_CHANNEL_SCALE == Dec(1, 1)
MIN_PROBE_RATIO == Dec(1, -2)
MAX_PROBE_RATIO == Dec(1000, 0)

\* getattr(self, 'MIN_' + which.upper()) and getattr(self, 'MAX_' + which.upper())
MinOf(which) ==
    CASE which = "PROBE_RATIO" -> MIN_PROBE_RATIO
      [] which = "TIMEBASE_SCALE" -> MIN_TIMEBASE_SCALE
      [] which = "CHANNEL_SCALE" -> MIN_CHANNEL_SCALE
MaxOf(which) ==
    CASE which = "PROBE_RATIO" -> MAX_PROBE_RATIO
      [] which = "TIMEBASE_SCALE" -> MAX_TIMEBASE_SCALE
      [] which = "CHANNEL_SCALE" -> MAX_CHANNEL_SCALE

\* '{0:e}'.format(x): the digit before the point and the decimal exponent
RECURSIVE FormatE(_)
FormatE(x) ==
    IF x.m >= 10
    THEN FormatE(Dec(x.m \div 10, x.e + 1))
    ELSE [digit |-> x.m, exponent |-> x.e]

\* mantissae.index(digit), counted from 0
IndexIn(mantissae, digit) ==
    (CHOOSE i \in 1..Len(mantissae) :
        mantissae[i] = digit /\ \A j \in 1..(i - 1) : mantissae[j] # digit) - 1

\* a variant that leaves the loop one value early
populate_continues_below(value, max_val) == Less(value, max_val)

\* the loop test of line 336
populate_continues(value, max_val) == Leq(value, max_val)

\* lines 336-345: the loop, from the value about to be tested
RECURSIVE populate_loop(_, _, _, _, _)
populate_loop(value, mantissa_idx, exponent, max_val, possible_values) ==
    IF populate_continues(value, max_val)
    THEN LET idx == (mantissa_idx + 1) % Len(SCALE_MANTISSAE)
             exp == IF idx = 0 THEN exponent + 1 ELSE exponent
         IN  populate_loop(Dec(SCALE_MANTISSAE[idx + 1], exp), idx, exp, max_val,
                           Append(possible_values, value))
    ELSE possible_values

\* lines 328-346
_populate_possible_values(which) ==
    LET min_val == MinOf(which)
        max_val == MaxOf(which)
        mantissa_idx == IndexIn(SCALE_MANTISSAE, FormatE(min_val).digit)
        exponent == FormatE(min_val).exponent
    IN  populate_loop(min_val, mantissa_idx, exponent, max_val, <<>>)

\* lines 64-66: the attributes set once by __init__ and never assigned again
possible_probe_ratio_values == _populate_possible_values("PROBE_RATIO")
possible_timebase_scale_values == _populate_possible_values("TIMEBASE_SCALE")
possible_channel_scale_values == _populate_possible_values("CHANNEL_SCALE")

\* no get_waveform_bytes result on record, no preamble answer on record
NoFetch == [path |-> "none", mode |-> "none", len |-> 0]
NoAnswer == [nfields |-> 0, numeric |-> FALSE, pnts |-> 0]

(***************************************************************************)
(* The state after DS1054Z.__init__ (lines 63-66), no call in progress.    *)
(***************************************************************************)
DriverInit ==
    /\ mask_begin_num = None
    /\ pc = "idle"
    /\ op = "none"
    /\ channel = [isint |-> FALSE, name |-> "CHAN1"]
    /\ mode = "NORMal"
    /\ path = "none"
    /\ sel_status = "none"
    /\ pnts = 0
    /\ starting_at = 0
    /\ stopping_at = 0
    /\ buff = <<>>
    /\ pos = 0
    /\ end_pos = 0
    /\ readback = 0
    /\ ret = NoRet
    /\ sent = <<>>
    /\ windows = <<>>
    /\ mask_at_call = None
    /\ acquiring \in BOOLEAN
    /\ scope_mode = "NORMal"
    /\ last_status = "none"
    /\ curr_running = FALSE
    /\ curr_mode = "none"
    /\ mdep = NoDepth
    /\ mode_at_call = "none"
    /\ fault = 0
    /\ scope_touched = FALSE
    /\ fetched = NoFetch
    /\ requested = NoNumber
    /\ use_closest_match = FALSE
    /\ probe_ratio = NoNumber
    /\ new_value = NoNumber
    /\ wp_answer = NoAnswer

\* a public method is entered at the step first: its arguments are bound, its
\* locals are fresh
EnterAt(first, method, ch, m) ==
    /\ pc = "idle"
    /\ pc' = first
    /\ op' = method
    /\ channel' = ch
    /\ mode' = m
    /\ path' = "none"
    /\ sel_status' = "none"
    /\ pnts' = 0
    /\ starting_at' = 0
    /\ stopping_at' = 0
    /\ buff' = <<>>
    /\ pos' = 0
    /\ end_pos' = 0
    /\ readback' = 0
    /\ ret' = NoRet
    /\ sent' = <<>>
    /\ windows' = <<>>
    /\ mask_at_call' = mask_begin_num
    /\ last_status' = "none"
    /\ curr_running' = FALSE
    /\ curr_mode' = "none"
    /\ mdep' = NoDepth
    /\ mode_at_call' = IF method = "memory_depth_internal_total"
                       THEN scope_mode ELSE "none"
    /\ fault' = 0
    /\ scope_touched' = FALSE
    /\ fetched' = IF method = "memory_depth_curr_waveform"
                        /\ op = "get_waveform_bytes" /\ ret.kind = "bytes"
                  THEN [path |-> path, mode |-> mode, len |-> BufLen(ret.val)]
                  ELSE NoFetch
    /\ UNCHANGED <<mask_begin_num, scope, decode_vars>>

\* the locals of the setters and of waveform_preamble in a call of another method
NoSetterLocals ==
    /\ requested' = NoNumber
    /\ use_closest_match' = FALSE
    /\ probe_ratio' = NoNumber
    /\ new_value' = NoNumber
    /\ wp_answer' = NoAnswer

\* get_waveform_bytes and get_waveform_samples start at line 243
Enter(method, ch, m) == EnterAt("select", method, ch, m) /\ NoSetterLocals

\* get_waveform_bytes(channel, mode) is called
CallGetWaveformBytes == \E ch \in Channels, m \in Modes : Enter("get_waveform_bytes", ch, m)

\* get_waveform_samples(channel, mode) is called; line 203 calls get_waveform_bytes
CallGetWaveformSamples == \E ch \in Channels, m \in Modes : Enter("get_waveform_samples", ch, m)

\* an exception leaves the call
Raise(e) ==
    /\ pc' = "idle"
    /\ ret' = RetRaised(e)

\* get_waveform_bytes returns b: to the caller, or to line 204 of
\* get_waveform_samples
ReturnBytes(b) ==
    IF op = "get_waveform_bytes"
    THEN pc' = "idle" /\ ret' = RetBytes(b)
    ELSE pc' = "gws_preamble" /\ ret' = ret

\* a variant that sends MAXimum to the internal-memory path whatever the status
use_screen_norm_only(m, isrunning) == StartsWith(Upper(m), <<"N", "O", "R", "M">>)

\* the condition of line 243, given self.running where it is evaluated
use_screen(m, isrunning) ==
    \/ StartsWith(Upper(m), <<"N", "O", "R", "M">>)
    \/ (isrunning /\ StartsWith(Upper(m), <<"M", "A", "X">>))

\* get_waveform_bytes, lines 242-246: NORM is decided without a query; otherwise
\* self.running queries the trigger status first
SelectPath ==
    /\ pc = "select"
    /\ channel' = _interpret_channel(channel)
    /\ IF StartsWith(Upper(mode), <<"N", "O", "R", "M">>)
       THEN /\ path' = IF use_screen(mode, FALSE) THEN "screen" ELSE "internal"
            /\ UNCHANGED <<sel_status, last_status, sent>>
       ELSE \E answer \in StatusAnswers(acquiring) :
            /\ Wire(":TRIGger:STATus?")
            /\ sel_status' = answer
            /\ last_status' = answer
            /\ path' = IF use_screen(mode, running(answer)) THEN "screen" ELSE "internal"
    /\ pc' = IF path' = "screen" THEN "scr_source" ELSE "int_running"
    /\ UNCHANGED <<op, mode, mask_at_call, pnts, starting_at, stopping_at, buff,
                   pos, end_pos, readback, ret, windows, mask_begin_num, scope,
                   decode_vars, depth_locals, mode_at_call, fault, fetched,
                   more_locals,
                   scope_touched>>

(***************************************************************************)
(* _get_waveform_bytes_screen (lines 248-294).                             *)
(***************************************************************************)
\* what a step of a fetch leaves alone unless it says otherwise
StepFrame == UNCHANGED <<args, path, sel_status, decode_vars, more_locals,
                         depth_locals,
                         fault, scope_touched>>
ProbeFrame == StepFrame /\ UNCHANGED last_status
FetchFrame == ProbeFrame /\ UNCHANGED readback

\* lines 253-255: the assertion on mode, then :WAVeform:SOURce
ScrSource ==
    /\ pc = "scr_source"
    /\ IF StartsWith(Upper(mode), <<"N", "O", "R">>) \/ StartsWith(Upper(mode), <<"M", "A", "X">>)
       THEN /\ Wire(":WAVeform:SOURce " \o _interpret_channel(channel).name)
            /\ pc' = "scr_format"
            /\ ret' = ret
       ELSE Raise("AssertionError") /\ sent' = sent
    /\ FetchFrame
    /\ UNCHANGED <<pnts, starting_at, stopping_at, buff, pos, end_pos, windows,
                   mask_begin_num, scope>>

\* line 256
ScrFormat ==
    /\ pc = "scr_format"
    /\ Wire(":WAVeform:FORMat BYTE")
    /\ pc' = "scr_mode"
    /\ FetchFrame
    /\ UNCHANGED <<pnts, starting_at, stopping_at, buff, pos, end_pos, windows,
                   ret, mask_begin_num, scope>>

\* line 257
ScrMode ==
    /\ pc = "scr_mode"
    /\ Wire(":WAVeform:MODE " \o mode)
    /\ scope_mode' = mode
    /\ pc' = "scr_preamble"
    /\ FetchFrame
    /\ UNCHANGED <<pnts, starting_at, stopping_at, buff, pos, end_pos, windows,
                   ret, mask_begin_num, acquiring>>

\* lines 258-262: the preamble is read and the window starts as 1..1200
ScrPreamble ==
    /\ pc = "scr_preamble"
    /\ Wire(":WAVeform:PREamble?")
    /\ \E p \in PntsValues : pnts' = p
    /\ starting_at' = 1
    /\ stopping_at' = SAMPLES_ON_DISPLAY
    /\ pc' = IF pnts' < SAMPLES_ON_DISPLAY THEN "scr_probe_high" ELSE "scr_start"
    /\ FetchFrame
    /\ UNCHANGED <<buff, pos, end_pos, windows, ret, mask_begin_num, scope>>

\* line 270
ScrProbeHigh ==
    /\ pc = "scr_probe_high"
    /\ Wire(":WAVeform:STARt " \o ToString(SAMPLES_ON_DISPLAY))
    /\ pc' = "scr_probe_low"
    /\ FetchFrame
    /\ UNCHANGED <<pnts, starting_at, stopping_at, buff, pos, end_pos, windows,
                   ret, mask_begin_num, scope>>

\* line 271
ScrProbeLow ==
    /\ pc = "scr_probe_low"
    /\ Wire(":WAVeform:STARt 1")
    /\ pc' = "scr_probe_read"
    /\ FetchFrame
    /\ UNCHANGED <<pnts, starting_at, stopping_at, buff, pos, end_pos, windows,
                   ret, mask_begin_num, scope>>

\* a variant that takes a start read back as 1 for a leading deficit
deficit_is_leading_swapped(start) == start = 1

\* the test of line 272 on the start index the instrument reads back
deficit_is_leading(start) == start # 1

\* lines 272-275: the instrument answers 1, or the first index it accepts, or
\* the 1200 written before
ScrProbeRead ==
    /\ pc = "scr_probe_read"
    /\ Wire(":WAVeform:STARt?")
    /\ \E answer \in {1, SAMPLES_ON_DISPLAY - pnts + 1, SAMPLES_ON_DISPLAY} :
         /\ readback' = answer
         /\ IF deficit_is_leading(answer)
            THEN /\ starting_at' = SAMPLES_ON_DISPLAY - pnts + 1
                 /\ stopping_at' = stopping_at
            ELSE /\ stopping_at' = pnts
                 /\ starting_at' = starting_at
    /\ pc' = "scr_start"
    /\ ProbeFrame
    /\ UNCHANGED <<pnts, buff, pos, end_pos, windows, ret, mask_begin_num, scope>>

\* line 276
ScrStart ==
    /\ pc = "scr_start"
    /\ Wire(":WAVeform:STARt " \o ToString(starting_at))
    /\ pc' = "scr_stop"
    /\ FetchFrame
    /\ UNCHANGED <<pnts, starting_at, stopping_at, buff, pos, end_pos, windows,
                   ret, mask_begin_num, scope>>

\* line 277
ScrStop ==
    /\ pc = "scr_stop"
    /\ Wire(":WAVeform:STOP " \o ToString(stopping_at))
    /\ pc' = "scr_data"
    /\ FetchFrame
    /\ UNCHANGED <<pnts, starting_at, stopping_at, buff, pos, end_pos, windows,
                   ret, mask_begin_num, scope>>

\* a variant that returns the decoded bytes without the padding
screen_pad_none(decoded, p, start) == [buff |-> decoded, mask |-> None]

\* a variant that records the number of points received as the count
screen_pad_count_points(decoded, p, start) ==
    IF p < SAMPLES_ON_DISPLAY
    THEN IF start = 1
         THEN [buff |-> decoded \o Run("zero", 0, SAMPLES_ON_DISPLAY - p),
               mask |-> <<0, p>>]
         ELSE [buff |-> Run("zero", 0, SAMPLES_ON_DISPLAY - p) \o decoded,
               mask |-> <<1, p>>]
    ELSE [buff |-> decoded, mask |-> None]

\* a variant that leaves the mask of an earlier fetch in place on a full screen
screen_pad_keep_mask(decoded, p, start) ==
    IF p < SAMPLES_ON_DISPLAY
    THEN IF start = 1
         THEN [buff |-> decoded \o Run("zero", 0, SAMPLES_ON_DISPLAY - p),
               mask |-> <<0, SAMPLES_ON_DISPLAY - p>>]
         ELSE [buff |-> Run("zero", 0, SAMPLES_ON_DISPLAY - p) \o decoded,
               mask |-> <<1, SAMPLES_ON_DISPLAY - p>>]
    ELSE [buff |-> decoded, mask |-> mask_begin_num]

\* lines 281-293: the buffer returned and the mask recorded for the decoded
\* bytes, the point count p and the window start
screen_pad(decoded, p, start) ==
    IF p < SAMPLES_ON_DISPLAY
    THEN IF start = 1
         THEN [buff |-> decoded \o Run("zero", 0, SAMPLES_ON_DISPLAY - p),
               mask |-> <<0, SAMPLES_ON_DISPLAY - p>>]
         ELSE [buff |-> Run("zero", 0, SAMPLES_ON_DISPLAY - p) \o decoded,
               mask |-> <<1, SAMPLES_ON_DISPLAY - p>>]
    ELSE [buff |-> decoded, mask |-> None]

\* lines 278-294: the data request, the assertion on its length, the padding
ScrData ==
    /\ pc = "scr_data"
    /\ Wire(":WAVeform:DATA?")
    /\ \E n \in DataLens(starting_at, stopping_at) :
         LET decoded == decode_block(starting_at, n)
             padded == screen_pad(decoded, pnts, starting_at)
         IN  /\ windows' = Append(windows, <<starting_at, stopping_at, n>>)
             /\ IF BufLen(decoded) = pnts
                THEN /\ buff' = padded.buff
                     /\ mask_begin_num' = padded.mask
                     /\ ReturnBytes(padded.buff)
                ELSE /\ Raise("AssertionError")
                     /\ buff' = decoded
                     /\ mask_begin_num' = mask_begin_num
    /\ FetchFrame
    /\ UNCHANGED <<pnts, starting_at, stopping_at, pos, end_pos, scope>>

(***************************************************************************)
(* _get_waveform_bytes_internal (lines 296-320).                           *)
(***************************************************************************)
\* lines 301-303: the assertion on mode, then self.running queries the status
IntRunning ==
    /\ pc = "int_running"
    /\ IF StartsWith(Upper(mode), <<"M", "A", "X">>) \/ StartsWith(Upper(mode), <<"R", "A", "W">>)
       THEN /\ Wire(":TRIGger:STATus?")
            /\ \E answer \in StatusAnswers(acquiring) :
                 /\ last_status' = answer
                 /\ pc' = IF running(answer) THEN "int_stop" ELSE "int_source"
            /\ ret' = ret
       ELSE Raise("AssertionError") /\ UNCHANGED <<sent, last_status>>
    /\ StepFrame
    /\ UNCHANGED readback
    /\ UNCHANGED <<pnts, starting_at, stopping_at, buff, pos, end_pos, windows,
                   mask_begin_num, scope>>

\* a variant that goes on to select the source without stopping the acquisition
IntStop_unsent ==
    /\ pc = "int_stop"
    /\ pc' = "int_source"
    /\ FetchFrame
    /\ UNCHANGED <<pnts, starting_at, stopping_at, buff, pos, end_pos, windows,
                   ret, mask_begin_num, scope, sent>>

\* line 304: self.stop()
IntStop ==
    /\ pc = "int_stop"
    /\ Wire(":STOP")
    /\ acquiring' = FALSE
    /\ pc' = "int_source"
    /\ FetchFrame
    /\ UNCHANGED <<pnts, starting_at, stopping_at, buff, pos, end_pos, windows,
                   ret, mask_begin_num, scope_mode>>

\* line 305
IntSource ==
    /\ pc = "int_source"
    /\ Wire(":WAVeform:SOURce " \o _interpret_channel(channel).name)
    /\ pc' = "int_format"
    /\ FetchFrame
    /\ UNCHANGED <<pnts, starting_at, stopping_at, buff, pos, end_pos, windows,
                   ret, mask_begin_num, scope>>

\* a variant that goes on to the read-mode without selecting the byte format
IntFormat_unsent ==
    /\ pc = "int_format"
    /\ pc' = "int_mode"
    /\ FetchFrame
    /\ UNCHANGED <<pnts, starting_at, stopping_at, buff, pos, end_pos, windows,
                   ret, mask_begin_num, scope, sent>>

\* line 306
IntFormat ==
    /\ pc = "int_format"
    /\ Wire(":WAVeform:FORMat BYTE")
    /\ pc' = "int_mode"
    /\ FetchFrame
    /\ UNCHANGED <<pnts, starting_at, stopping_at, buff, pos, end_pos, windows,
                   ret, mask_begin_num, scope>>

\* line 307
IntMode ==
    /\ pc = "int_mode"
    /\ Wire(":WAVeform:MODE " \o mode)
    /\ scope_mode' = mode
    /\ pc' = "int_preamble"
    /\ FetchFrame
    /\ UNCHANGED <<pnts, starting_at, stopping_at, buff, pos, end_pos, windows,
                   ret, mask_begin_num, acquiring>>

\* lines 308-312
IntPreamble ==
    /\ pc = "int_preamble"
    /\ Wire(":WAVeform:PREamble?")
    /\ \E p \in PntsValues : pnts' = p
    /\ buff' = <<>>
    /\ pos' = 1
    /\ pc' = "int_loop"
    /\ FetchFrame
    /\ UNCHANGED <<starting_at, stopping_at, end_pos, windows, ret,
                   mask_begin_num, scope>>

\* the loop test of line 313
loop_continues(len, p) == len < p

\* lines 313-314: the loop is entered and the start of the window is written
IntLoopStart ==
    /\ pc = "int_loop"
    /\ loop_continues(BufLen(buff), pnts)
    /\ Len(windows) < MaxRequests
    /\ Wire(":WAVeform:STARt " \o ToString(pos))
    /\ pc' = "int_window_stop"
    /\ FetchFrame
    /\ UNCHANGED <<pnts, starting_at, stopping_at, buff, pos, end_pos, windows,
                   ret, mask_begin_num, scope>>

\* lines 313, 320: the loop is left and buff is returned
IntLoopExit ==
    /\ pc = "int_loop"
    /\ ~loop_continues(BufLen(buff), pnts)
    /\ ReturnBytes(buff)
    /\ FetchFrame
    /\ UNCHANGED <<pnts, starting_at, stopping_at, buff, pos, end_pos, windows,
                   sent, mask_begin_num, scope>>

\* a variant that does not clamp the window's end to the point count
window_end_unclamped(p, start) == start + max_byte_len - 1

\* line 315
window_end(p, start) == Min(p, start + max_byte_len - 1)

\* lines 315-316
IntWindowStop ==
    /\ pc = "int_window_stop"
    /\ end_pos' = window_end(pnts, pos)
    /\ Wire(":WAVeform:STOP " \o ToString(end_pos'))
    /\ pc' = "int_data"
    /\ FetchFrame
    /\ UNCHANGED <<pnts, starting_at, stopping_at, buff, pos, windows, ret,
                   mask_begin_num, scope>>

\* lines 317-319: the data request; its decoded payload is appended and the
\* window moves on by max_byte_len
IntData ==
    /\ pc = "int_data"
    /\ Wire(":WAVeform:DATA?")
    /\ \E n \in DataLens(pos, end_pos) :
         /\ windows' = Append(windows, <<pos, end_pos, n>>)
         /\ buff' = buff \o decode_block(pos, n)
    /\ pos' = pos + max_byte_len
    /\ pc' = "int_loop"
    /\ FetchFrame
    /\ UNCHANGED <<pnts, starting_at, stopping_at, end_pos, ret,
                   mask_begin_num, scope>>

(***************************************************************************)
(* get_waveform_samples (lines 203-214), after get_waveform_bytes returned.*)
(***************************************************************************)
\* line 206 on a buffer of segments: every byte becomes a voltage
to_voltages(b) ==
    [i \in 1..Len(b) |->
        [b[i] EXCEPT !.kind = IF @ = "zero" THEN "voltzero" ELSE "volt"]]

\* a variant that overwrites the samples at the other end of the list
apply_mask_other_end(samples, mask) ==
    IF mask # None
    THEN LET at_begin == mask[1]
             num == mask[2]
             len == BufLen(samples)
         IN  IF at_begin = 0
             THEN Run("nan", 0, num) \o SegDrop(samples, Min(num, len))
             ELSE SegTake(samples, PySliceIndex(0 - num, len)) \o Run("nan", 0, num)
    ELSE samples

\* lines 207-213: the pending mask, if any, overwrites num samples by nan
apply_mask(samples, mask) ==
    IF mask # None
    THEN LET at_begin == mask[1]
             num == mask[2]
             len == BufLen(samples)
         IN  IF at_begin # 0
             THEN Run("nan", 0, num) \o SegDrop(samples, Min(num, len))
             ELSE SegTake(samples, PySliceIndex(0 - num, len)) \o Run("nan", 0, num)
    ELSE samples

\* lines 204-214: the preamble is read again, the bytes are converted, the mask
\* is applied and the samples are returned
GwsReconstruct ==
    /\ pc = "gws_preamble"
    /\ Wire(":WAVeform:PREamble?")
    /\ ret' = RetSamples(apply_mask(to_voltages(buff), mask_begin_num))
    /\ pc' = "idle"
    /\ FetchFrame
    /\ UNCHANGED <<pnts, starting_at, stopping_at, buff, pos, end_pos, windows,
                   mask_begin_num, scope>>

(***************************************************************************)
(* waveform_preamble (lines 121-161) and memory_depth_internal_total       *)
(* (lines 545-568).                                                        *)
(***************************************************************************)
\* the answers to :WAVeform:PREamble? where the point count is parsed alone: a
\* comma-separated list of nfields fields that are all numbers or not, the
\* third one being pnts
PreambleAnswers ==
    {[nfields |-> 10, numeric |-> TRUE, pnts |-> p] : p \in PntsValues}
    \cup {[nfields |-> 9, numeric |-> TRUE, pnts |-> 1200],
          [nfields |-> 11, numeric |-> TRUE, pnts |-> 1200],
          [nfields |-> 1, numeric |-> FALSE, pnts |-> 0],
          [nfields |-> 10, numeric |-> FALSE, pnts |-> 0]}

\* a variant without the assertion on the number of fields
waveform_preamble_unchecked(answer) ==
    IF ~answer.numeric
    THEN [exc |-> "ValueError", pnts |-> 0]
    ELSE [exc |-> "", pnts |-> answer.pnts]

\* lines 157-161: the assertion on the number of fields, then int() and
\* float() on each field
waveform_preamble(answer) ==
    IF answer.nfields # 10
    THEN [exc |-> "AssertionError", pnts |-> 0]
    ELSE IF ~answer.numeric
         THEN [exc |-> "ValueError", pnts |-> 0]
         ELSE [exc |-> "", pnts |-> answer.pnts]

RetDepth(n) == [kind |-> "depth", val |-> <<n>>, exc |-> ""]

\* what a step of memory_depth_internal_total leaves alone
ParseFrame ==
    UNCHANGED <<args, path, sel_status, starting_at, stopping_at, buff, pos,
                end_pos, readback, windows, mask_begin_num, scope_touched,
                decode_vars, more_locals>>
DepthFrame == ParseFrame /\ UNCHANGED fault

\* memory_depth_internal_total is read
CallMemoryDepthInternalTotal ==
    /\ EnterAt("mdep_query", "memory_depth_internal_total",
               [isint |-> FALSE, name |-> "CHAN1"], "NORMal")
    /\ NoSetterLocals

\* lines 553-554
MdepQuery ==
    /\ pc = "mdep_query"
    /\ Wire(":ACQuire:MDEPth?")
    /\ \E answer \in MdepAnswers :
         /\ mdep' = answer
         /\ pc' = IF answer.text = "AUTO" THEN "mdep_running" ELSE "mdep_return"
    /\ DepthFrame
    /\ UNCHANGED <<pnts, last_status, curr_running, curr_mode, ret, scope>>

\* line 555: curr_running = self.running
MdepRunning ==
    /\ pc = "mdep_running"
    /\ Wire(":TRIGger:STATus?")
    /\ \E answer \in StatusAnswers(acquiring) :
         /\ last_status' = answer
         /\ curr_running' = running(answer)
    /\ pc' = "mdep_mode_query"
    /\ DepthFrame
    /\ UNCHANGED <<pnts, curr_mode, mdep, ret, scope>>

\* the test of line 559 on the read-mode snapshot
mode_is_norm(answer) == StartsWith(Chars(answer), <<"N", "O", "R", "M">>)

\* where lines 557-559 go on once the acquisition is stopped or left alone
after_stop(answer) == IF mode_is_norm(answer) THEN "mdep_mode_raw" ELSE "mdep_preamble"

\* line 556: curr_mode = self.query(':WAVeform:MODE?'), then the test of line 557
MdepModeQuery ==
    /\ pc = "mdep_mode_query"
    /\ Wire(":WAVeform:MODE?")
    /\ curr_mode' = ModeAnswer(scope_mode)
    /\ pc' = IF curr_running THEN "mdep_stop" ELSE after_stop(curr_mode')
    /\ DepthFrame
    /\ UNCHANGED <<pnts, last_status, curr_running, mdep, ret, scope>>

\* line 558: self.stop()
MdepStop ==
    /\ pc = "mdep_stop"
    /\ Wire(":STOP")
    /\ acquiring' = FALSE
    /\ pc' = after_stop(curr_mode)
    /\ DepthFrame
    /\ UNCHANGED <<pnts, last_status, depth_locals, ret, scope_mode>>

\* line 561
MdepModeRaw ==
    /\ pc = "mdep_mode_raw"
    /\ Wire(":WAVeform:MODE RAW")
    /\ scope_mode' = "RAW"
    /\ pc' = "mdep_preamble"
    /\ DepthFrame
    /\ UNCHANGED <<pnts, last_status, depth_locals, ret, acquiring>>

\* a variant that restarts the acquisition whatever the snapshot says
after_restore_always_run(was_running) == "mdep_run"

\* the test of line 566
after_restore(was_running) == IF was_running THEN "mdep_run" ELSE "mdep_return"

\* lines 562 and 565: mdep = self.waveform_preamble_dict['pnts']
MdepPreamble ==
    /\ pc = "mdep_preamble"
    /\ Wire(":WAVeform:PREamble?")
    /\ \E answer \in PreambleAnswers :
         LET wp == waveform_preamble(answer)
         IN  IF wp.exc # ""
             THEN /\ Raise(wp.exc)
                  /\ fault' = Len(sent')
                  /\ UNCHANGED <<pnts, mdep>>
             ELSE /\ fault' = fault
                  /\ pnts' = wp.pnts
                  /\ mdep' = Depth(wp.pnts)
                  /\ ret' = ret
                  /\ pc' = IF mode_is_norm(curr_mode)
                           THEN "mdep_mode_restore"
                           ELSE after_restore(curr_running)
    /\ ParseFrame
    /\ UNCHANGED <<last_status, curr_running, curr_mode, scope>>

\* a variant that leaves the instrument in RAW mode
restore_mode_raw(snapshot) == "RAW"

\* the mode written back on line 563
restore_mode(snapshot) == snapshot

\* line 563: self.write(':WAVeform:MODE ' + curr_mode)
MdepModeRestore ==
    /\ pc = "mdep_mode_restore"
    /\ Wire(":WAVeform:MODE " \o restore_mode(curr_mode))
    /\ scope_mode' = restore_mode(curr_mode)
    /\ pc' = after_restore(curr_running)
    /\ DepthFrame
    /\ UNCHANGED <<pnts, last_status, depth_locals, ret, acquiring>>

\* line 567: self.run()
MdepRun ==
    /\ pc = "mdep_run"
    /\ Wire(":RUN")
    /\ acquiring' = TRUE
    /\ pc' = "mdep_return"
    /\ DepthFrame
    /\ UNCHANGED <<pnts, last_status, depth_locals, ret, scope_mode>>

\* the position of the first c in s, Len(s) + 1 if there is none
Find(s, c) ==
    IF \E i \in 1..Len(s) : s[i] = c
    THEN CHOOSE i \in 1..Len(s) : s[i] = c /\ \A j \in 1..(i - 1) : s[j] # c
    ELSE Len(s) + 1

\* a variant that reads the digits before the point only
int_float_whole_part(d) ==
    IF d.text = ""
    THEN d.num
    ELSE DigitsVal(SubSeq(DepthChars(d.text), 1,
                          Min(Find(DepthChars(d.text), "."),
                              Find(DepthChars(d.text), "e")) - 1))

\* int(float(mdep)) for the int of a preamble and for the text of an answer:
\* digits, an optional point and more digits, an optional e+ and an exponent;
\* int() drops what is left behind the point
int_float(d) ==
    IF d.text = ""
    THEN d.num
    ELSE LET s == DepthChars(d.text)
             e == Find(s, "e")
             mantissa == SubSeq(s, 1, e - 1)
             exponent == IF e > Len(s) THEN 0 ELSE DigitsVal(SubSeq(s, e + 2, Len(s)))
             point == Find(mantissa, ".")
             whole == SubSeq(mantissa, 1, point - 1)
             fraction == SubSeq(mantissa, point + 1, Len(mantissa))
             digits == DigitsVal(whole \o fraction)
         IN  IF exponent >= Len(fraction)
             THEN digits * Pow10(exponent - Len(fraction))
             ELSE digits \div Pow10(Len(fraction) - exponent)

\* line 568: return int(float(mdep))
MdepReturn ==
    /\ pc = "mdep_return"
    /\ ret' = RetDepth(int_float(mdep))
    /\ pc' = "idle"
    /\ DepthFrame
    /\ UNCHANGED <<pnts, last_status, depth_locals, sent, scope>>

(***************************************************************************)
(* memory_depth_curr_waveform (lines 514-528).                             *)
(***************************************************************************)
\* memory_depth_curr_waveform is read
CallMemoryDepthCurrWaveform ==
    /\ EnterAt("mdcw_mode", "memory_depth_curr_waveform",
               [isint |-> FALSE, name |-> "CHAN1"], "NORMal")
    /\ NoSetterLocals

\* what a step of memory_depth_curr_waveform leaves alone
CurrFrame ==
    UNCHANGED <<args, path, pnts, starting_at, stopping_at, buff, pos, end_pos,
                readback, windows, mask_begin_num, scope_touched, decode_vars,
                depth_locals, fault, scope, more_locals>>

\* a variant that goes on to the internal depth whatever the trigger status
after_status_internal(answer) == "mdep_query"

\* line 525, second operand: the screen when running, else line 528, which
\* reads memory_depth_internal_total
after_status(answer) == IF running(answer) THEN "idle" ELSE "mdep_query"

\* line 525, first operand: self.query(':WAVeform:MODE?').startswith('NORM');
\* line 526 if so
MdcwMode ==
    /\ pc = "mdcw_mode"
    /\ Wire(":WAVeform:MODE?")
    /\ IF mode_is_norm(ModeAnswer(scope_mode))
       THEN /\ pc' = "idle"
            /\ ret' = RetDepth(SAMPLES_ON_DISPLAY)
       ELSE /\ pc' = "mdcw_running"
            /\ ret' = ret
    /\ CurrFrame
    /\ UNCHANGED <<sel_status, last_status>>

\* line 525, second operand: self.running; line 526 if so, else line 528
MdcwRunning ==
    /\ pc = "mdcw_running"
    /\ Wire(":TRIGger:STATus?")
    /\ \E answer \in StatusAnswers(acquiring) :
         /\ sel_status' = answer
         /\ last_status' = answer
         /\ pc' = after_status(answer)
    /\ ret' = IF pc' = "idle" THEN RetDepth(SAMPLES_ON_DISPLAY) ELSE ret
    /\ CurrFrame

(***************************************************************************)
(* waveform_preamble and waveform_preamble_dict read by the caller.        *)
(***************************************************************************)
RetPreamble(p) == [kind |-> "preamble", val |-> <<p>>, exc |-> ""]

\* scope.waveform_preamble or scope.waveform_preamble_dict is read
CallWaveformPreamble ==
    \E property \in {"waveform_preamble", "waveform_preamble_dict"} :
        /\ EnterAt("wp_query", property, [isint |-> FALSE, name |-> "CHAN1"], "NORMal")
        /\ NoSetterLocals

\* lines 139-161, and lines 174-175 around them for the dictionary
WpQuery ==
    /\ pc = "wp_query"
    /\ Wire(":WAVeform:PREamble?")
    /\ \E answer \in PreambleAnswers :
         LET wp == waveform_preamble(answer)
         IN  /\ wp_answer' = answer
             /\ IF wp.exc # ""
                THEN /\ Raise(wp.exc)
                     /\ fault' = Len(sent')
                ELSE /\ ret' = RetPreamble(wp.pnts)
                     /\ pc' = "idle"
                     /\ fault' = fault
    /\ UNCHANGED <<args, path, sel_status, pnts, starting_at, stopping_at, buff,
                   pos, end_pos, readback, windows, mask_begin_num, scope_touched,
                   decode_vars, last_status, depth_locals, scope, requested,
                   use_closest_match, probe_ratio, new_value>>

(***************************************************************************)
(* The setters that round to a 1-2-5 step: timebase_scale (lines 385-388), *)
(* set_probe_ratio (lines 603-617) and set_channel_scale (lines 660-680).  *)
(***************************************************************************)
\* the values asked for
TimebaseRequests ==
    {Dec(3, -2), Dec(1, -9), Dec(100, 0), Dec(2, -7), Dec(15, -1), Dec(35, -1),
     Dec(75, -1), Dec(75, -2)}
ProbeRequests ==
    {Dec(3, -2), Dec(10, 0), Dec(15, -1), Dec(3, 0), Dec(5000, 0), Dec(1, -3),
     Dec(35, 0), Dec(75, -2)}
ChannelRequests ==
    {Dec(3, -2), Dec(15, -1), Dec(7, 0), Dec(70, 0), Dec(123, -2), Dec(6, -4)}

\* the answers to :CHANx:PROBe?: the text of a number, or not
ProbeAnswers ==
    {[numeric |-> TRUE, value |-> Dec(1, 0)], [numeric |-> TRUE, value |-> Dec(10, 0)],
     [numeric |-> TRUE, value |-> Dec(5, -1)], [numeric |-> FALSE, value |-> NoNumber]}

\* '{0}'.format(x) as the wire log keeps it
Text(x) == ToString(x.m) \o "e" \o ToString(x.e)

RetDone == [kind |-> "done", val |-> <<>>, exc |-> ""]

\* a variant of the comparison that also replaces a candidate as near
closer_or_as_near(x, best, request) ==
    ~LimbsLess(AbsDiff(best, request), AbsDiff(x, request))

\* min() replaces the candidate it holds only by one with a smaller key, the
\* key being abs(x - request)
closer(x, best, request) == LimbsLess(AbsDiff(x, request), AbsDiff(best, request))

\* min(values, key=lambda x: abs(x - request)), from element i on
RECURSIVE min_from(_, _, _, _)
min_from(values, i, best, request) ==
    IF i > Len(values)
    THEN best
    ELSE IF closer(values[i], best, request)
         THEN min_from(values, i + 1, values[i], request)
         ELSE min_from(values, i + 1, best, request)
closest_match(values, request) == min_from(values, 2, values[1], request)

\* a variant that offers the default steps whatever the probe ratio
scaled_by_one(values, ratio) == values

\* line 678: [val * probe_ratio for val in self.possible_channel_scale_values]
scaled(values, ratio) == [i \in 1..Len(values) |-> Times(values[i], ratio)]

\* a setter is entered; its arguments are drawn by the first line that runs
EnterSetter(first, method) ==
    /\ EnterAt(first, method, [isint |-> FALSE, name |-> "CHAN1"], "NORMal")
    /\ NoSetterLocals

\* what a step of a setter leaves alone
SetterFrame ==
    UNCHANGED <<op, mode, mask_at_call, mode_at_call, fetched, path, sel_status,
                pnts, starting_at, stopping_at, buff, pos, end_pos, readback,
                windows, mask_begin_num, scope_touched, decode_vars, last_status,
                depth_locals, fault, scope, wp_answer>>
ArgsFrame == UNCHANGED <<requested, use_closest_match>>

\* scope.timebase_scale = new_timebase
CallTimebaseScale == EnterSetter("tb_snap", "timebase_scale")

\* lines 386-387
TbSnap ==
    /\ pc = "tb_snap"
    /\ \E new_timebase \in TimebaseRequests :
         /\ requested' = new_timebase
         /\ new_value' = closest_match(possible_timebase_scale_values, new_timebase)
    /\ pc' = "tb_write"
    /\ SetterFrame
    /\ UNCHANGED <<channel, use_closest_match, probe_ratio, ret, sent>>

\* line 388
TbWrite ==
    /\ pc = "tb_write"
    /\ Wire(":TIMebase:MAIN:SCALe " \o Text(new_value))
    /\ ret' = RetDone
    /\ pc' = "idle"
    /\ SetterFrame
    /\ ArgsFrame
    /\ UNCHANGED <<channel, probe_ratio, new_value>>

\* set_probe_ratio(channel, ratio) is called
CallSetProbeRatio == EnterSetter("pr_snap", "set_probe_ratio")

\* lines 603-616
PrSnap ==
    /\ pc = "pr_snap"
    /\ \E ch \in Channels, ratio \in ProbeRequests :
         /\ requested' = ratio
         /\ new_value' = closest_match(possible_probe_ratio_values, ratio)
         /\ channel' = _interpret_channel(ch)
    /\ pc' = "pr_write"
    /\ SetterFrame
    /\ UNCHANGED <<use_closest_match, probe_ratio, ret, sent>>

\* line 617
PrWrite ==
    /\ pc = "pr_write"
    /\ Wire(":" \o channel.name \o ":PROBe " \o Text(new_value))
    /\ ret' = RetDone
    /\ pc' = "idle"
    /\ SetterFrame
    /\ ArgsFrame
    /\ UNCHANGED <<channel, probe_ratio, new_value>>

\* set_channel_scale(channel, volts, use_closest_match) is called
CallSetChannelScale == EnterSetter("cs_enter", "set_channel_scale")

\* lines 660-676
CsEnter ==
    /\ pc = "cs_enter"
    /\ \E ch \in Channels, volts \in ChannelRequests, closest \in BOOLEAN :
         /\ requested' = volts
         /\ new_value' = volts
         /\ use_closest_match' = closest
         /\ channel' = _interpret_channel(ch)
         /\ pc' = IF closest THEN "cs_probe" ELSE "cs_write"
    /\ SetterFrame
    /\ UNCHANGED <<probe_ratio, ret, sent>>

\* line 677: get_probe_ratio (lines 600-601)
CsProbe ==
    /\ pc = "cs_probe"
    /\ Wire(":" \o _interpret_channel(channel).name \o ":PROBe?")
    /\ \E answer \in ProbeAnswers :
         IF answer.numeric
         THEN /\ probe_ratio' = answer.value
              /\ pc' = "cs_snap"
              /\ ret' = ret
         ELSE /\ Raise("ValueError")
              /\ probe_ratio' = probe_ratio
    /\ SetterFrame
    /\ ArgsFrame
    /\ UNCHANGED <<channel, new_value>>

\* lines 678-679
CsSnap ==
    /\ pc = "cs_snap"
    /\ new_value' = closest_match(scaled(possible_channel_scale_values, probe_ratio),
                                  new_value)
    /\ pc' = "cs_write"
    /\ SetterFrame
    /\ ArgsFrame
    /\ UNCHANGED <<channel, probe_ratio, ret, sent>>

\* line 680
CsWrite ==
    /\ pc = "cs_write"
    /\ Wire(":" \o channel.name \o ":SCALe " \o Text(new_value))
    /\ ret' = RetDone
    /\ pc' = "idle"
    /\ SetterFrame
    /\ ArgsFrame
    /\ UNCHANGED <<channel, probe_ratio, new_value>>

(***************************************************************************)
(* The transport (vxi11) raises while a command is written or its answer   *)
(* is read.  No method of DS1054Z catches an exception.                    *)
(***************************************************************************)
\* the command the step at pc sends next, "" if it sends none
NextCommand ==
    CASE pc = "select" ->
            IF StartsWith(Upper(mode), <<"N", "O", "R", "M">>)
            THEN "" ELSE ":TRIGger:STATus?"
      [] pc \in {"scr_source", "int_source"} ->
            ":WAVeform:SOURce " \o _interpret_channel(channel).name
      [] pc \in {"scr_format", "int_format"} -> ":WAVeform:FORMat BYTE"
      [] pc \in {"scr_mode", "int_mode"} -> ":WAVeform:MODE " \o mode
      [] pc \in {"scr_preamble", "int_preamble", "gws_preamble", "mdep_preamble",
                 "wp_query"} ->
            ":WAVeform:PREamble?"
      [] pc = "scr_probe_high" -> ":WAVeform:STARt " \o ToString(SAMPLES_ON_DISPLAY)
      [] pc = "scr_probe_low" -> ":WAVeform:STARt 1"
      [] pc = "scr_probe_read" -> ":WAVeform:STARt?"
      [] pc = "scr_start" -> ":WAVeform:STARt " \o ToString(starting_at)
      [] pc = "scr_stop" -> ":WAVeform:STOP " \o ToString(stopping_at)
      [] pc \in {"scr_data", "int_data"} -> ":WAVeform:DATA?"
      [] pc \in {"int_running", "mdep_running", "mdcw_running"} -> ":TRIGger:STATus?"
      [] pc \in {"int_stop", "mdep_stop"} -> ":STOP"
      [] pc = "int_loop" ->
            IF loop_continues(BufLen(buff), pnts) /\ Len(windows) < MaxRequests
            THEN ":WAVeform:STARt " \o ToString(pos) ELSE ""
      [] pc = "int_window_stop" -> ":WAVeform:STOP " \o ToString(window_end(pnts, pos))
      [] pc = "mdep_query" -> ":ACQuire:MDEPth?"
      [] pc \in {"mdep_mode_query", "mdcw_mode"} -> ":WAVeform:MODE?"
      [] pc = "mdep_mode_raw" -> ":WAVeform:MODE RAW"
      [] pc = "mdep_mode_restore" -> ":WAVeform:MODE " \o restore_mode(curr_mode)
      [] pc = "mdep_run" -> ":RUN"
      [] pc = "tb_write" -> ":TIMebase:MAIN:SCALe " \o Text(new_value)
      [] pc = "pr_write" -> ":" \o channel.name \o ":PROBe " \o Text(new_value)
      [] pc = "cs_probe" -> ":" \o channel.name \o ":PROBe?"
      [] pc = "cs_write" -> ":" \o channel.name \o ":SCALe " \o Text(new_value)
      [] OTHER -> ""

\* what a write that failed may still have done to the instrument
RunStateAfterFailure ==
    CASE pc \in {"int_stop", "mdep_stop"} -> {acquiring, FALSE}
      [] pc = "mdep_run" -> {acquiring, TRUE}
      [] OTHER -> {acquiring}
ModeAfterFailure ==
    CASE pc \in {"scr_mode", "int_mode"} -> {scope_mode, mode}
      [] pc = "mdep_mode_raw" -> {scope_mode, "RAW"}
      [] pc = "mdep_mode_restore" -> {scope_mode, restore_mode(curr_mode)}
      [] OTHER -> {scope_mode}

\* a variant that stays where it is, to send the command again
transport_failure_retried == pc' = pc /\ ret' = ret

\* a variant that hides the failure and returns what was accumulated so far
transport_failure_swallowed == pc' = "idle" /\ ret' = RetBytes(buff)

\* the exception of the transport leaves the method and its callers
transport_failure == Raise("TransportError")

\* a write or a query raises; the locals assigned before it on the same line
\* or the line above are assigned
TransportError ==
    /\ NextCommand # ""
    /\ Wire(NextCommand)
    /\ fault' = Len(sent')
    /\ transport_failure
    /\ acquiring' \in RunStateAfterFailure
    /\ scope_mode' \in ModeAfterFailure
    /\ channel' = IF pc = "select" THEN _interpret_channel(channel) ELSE channel
    /\ end_pos' = IF pc = "int_window_stop" THEN window_end(pnts, pos) ELSE end_pos
    /\ UNCHANGED <<op, mode, mask_at_call, mode_at_call, path, sel_status, pnts,
                   starting_at, stopping_at, buff, pos, readback, last_status,
                   depth_locals, windows, mask_begin_num, scope_touched,
                   decode_vars, fetched, more_locals>>

(***************************************************************************)
(* The oscilloscope on its own: the acquisition stops (a single shot ends, *)
(* STOP is pressed) or starts (RUN is pressed) at any time.                *)
(***************************************************************************)
ScopeRunStop ==
    /\ acquiring' = ~acquiring
    /\ scope_touched' = (scope_touched \/ op = "memory_depth_internal_total")
    /\ UNCHANGED <<mask_begin_num, pc, ret, sent, windows, args, locals,
                   scope_mode, decode_vars, fault>>

Init ==
    /\ ieee_bytes = <<>>
    /\ dec = Pending
    /\ DriverInit

Next ==
    \/ CallGetWaveformBytes
    \/ CallGetWaveformSamples
    \/ SelectPath
    \/ ScrSource
    \/ ScrFormat
    \/ ScrMode
    \/ ScrPreamble
    \/ ScrProbeHigh
    \/ ScrProbeLow
    \/ ScrProbeRead
    \/ ScrStart
    \/ ScrStop
    \/ ScrData
    \/ IntRunning
    \/ IntStop
    \/ IntSource
    \/ IntFormat
    \/ IntMode
    \/ IntPreamble
    \/ IntLoopStart
    \/ IntLoopExit
    \/ IntWindowStop
    \/ IntData
    \/ GwsReconstruct
    \/ CallMemoryDepthInternalTotal
    \/ MdepQuery
    \/ MdepRunning
    \/ MdepModeQuery
    \/ MdepStop
    \/ MdepModeRaw
    \/ MdepPreamble
    \/ MdepModeRestore
    \/ MdepRun
    \/ MdepReturn
    \/ CallMemoryDepthCurrWaveform
    \/ MdcwMode
    \/ MdcwRunning
    \/ CallWaveformPreamble
    \/ WpQuery
    \/ CallTimebaseScale
    \/ TbSnap
    \/ TbWrite
    \/ CallSetProbeRatio
    \/ PrSnap
    \/ PrWrite
    \/ CallSetChannelScale
    \/ CsEnter
    \/ CsProbe
    \/ CsSnap
    \/ CsWrite
    \/ TransportError
    \/ ScopeRunStop

Spec == Init /\ [][Next]_vars

DecodeInit ==
    /\ ieee_bytes \in Buffers
    /\ dec = Pending
    /\ DriverInit
    /\ acquiring = FALSE

DecodeNext == Decode

DecodeSpec == DecodeInit /\ [][DecodeNext]_vars

(***************************************************************************)
(* Properties of decode_ieee_block, checked under DecodeSpec.              *)
(***************************************************************************)
\* the header of b is '#', a digit d in 1..9 and d decimal digits
HeaderWellFormed(b) ==
    /\ Len(b) >= 2
    /\ b[1] = "#"
    /\ IsDigit(b[2])
    /\ DigitVal(b[2]) \in 1..9
    /\ Len(b) >= 2 + DigitVal(b[2])
    /\ AllDigits(SubSeq(b, 3, 2 + DigitVal(b[2])))

\* the length of the header of b and the payload length L it declares
HeaderLen(b) == 2 + DigitVal(b[2])
DeclaredLen(b) == DigitsVal(SubSeq(b, 3, HeaderLen(b)))

\* C1: for a buffer '#', digit d in 1..9, d decimal digits encoding L, at
\* least L payload bytes and any trailing bytes, decode_ieee_block returns
\* exactly the L bytes after the length field, in order, and nothing more.
C1_DecodeReturnsPayload ==
    (/\ dec # Pending
     /\ HeaderWellFormed(ieee_bytes)
     /\ Len(ieee_bytes) >= HeaderLen(ieee_bytes) + DeclaredLen(ieee_bytes))
    => dec = Returned(SubSeq(ieee_bytes, HeaderLen(ieee_bytes) + 1,
                             HeaderLen(ieee_bytes) + DeclaredLen(ieee_bytes)))

\* a block with a two-digit length field, a payload and a trailing byte decoded
C1_Witness ==
    /\ dec.kind = "returned"
    /\ HeaderWellFormed(ieee_bytes)
    /\ DigitVal(ieee_bytes[2]) = 2
    /\ DeclaredLen(ieee_bytes) >= 1
    /\ Len(ieee_bytes) > HeaderLen(ieee_bytes) + DeclaredLen(ieee_bytes)
    /\ Len(dec.data) = DeclaredLen(ieee_bytes)

\* C2: decode_ieee_block fails when the buffer holds fewer payload bytes than
\* the length L its header declares, and never returns a buffer whose length
\* differs from L.
C2_ShortPayloadFails ==
    (dec # Pending /\ HeaderWellFormed(ieee_bytes))
    => /\ Len(ieee_bytes) < HeaderLen(ieee_bytes) + DeclaredLen(ieee_bytes)
          => dec.kind = "raised"
       /\ dec.kind = "returned" => Len(dec.data) = DeclaredLen(ieee_bytes)

\* C3: decode_ieee_block fails, and returns no data, when the first byte is
\* not '#', when the second byte is not a digit, or when the length field is
\* not a decimal number.
C3_BadHeaderFails ==
    (/\ dec # Pending
     /\ \/ Len(ieee_bytes) >= 1 /\ ieee_bytes[1] # "#"
        \/ Len(ieee_bytes) >= 2 /\ ~IsDigit(ieee_bytes[2])
        \/ /\ Len(ieee_bytes) >= 2
           /\ IsDigit(ieee_bytes[2])
           /\ Len(ieee_bytes) >= HeaderLen(ieee_bytes)
           /\ ~AllDigits(SubSeq(ieee_bytes, 3, HeaderLen(ieee_bytes))))
    => dec.kind = "raised"

(***************************************************************************)
(* Properties of the fetches, checked under Spec.                          *)
(***************************************************************************)
\* get_waveform_bytes has returned a buffer (to its caller, or to
\* get_waveform_samples, which may have returned too) on the given path
Returned_on(which) ==
    /\ path = which
    /\ \/ pc = "gws_preamble"
       \/ pc = "idle" /\ ret.kind \in {"bytes", "samples"}

\* every data request of the call was answered with its whole window
AllFull ==
    \A i \in 1..Len(windows) : windows[i][3] = windows[i][2] - windows[i][1] + 1

CeilDiv(a, b) == (a + b - 1) \div b

\* C4: NORMal always takes the screen path, RAW always the internal-memory
\* path, and MAXimum the screen path if the trigger status read by the call
\* is one of the running states and the internal-memory path otherwise.
C4_PathByMode ==
    path # "none"
    => /\ mode = "NORMal" => path = "screen"
       /\ mode = "RAW" => path = "internal"
       /\ mode = "MAXimum"
          => path = IF sel_status \in LiveStatus THEN "screen" ELSE "internal"

\* a MAXimum call that read STOP has returned bytes from the internal memory
C4_Witness ==
    /\ pc = "idle"
    /\ ret.kind = "bytes"
    /\ mode = "MAXimum"
    /\ sel_status = "STOP"
    /\ path = "internal"

\* C5: when every sub-range request is answered in full, an internal-memory
\* fetch with point count pnts makes exactly ceil(pnts/250000) data requests,
\* the k-th (from 0) for the window 1+250000k .. min(pnts, 250000(k+1)), in
\* increasing order of k, and returns exactly pnts bytes.
C5_ChunkWindows ==
    (path = "internal" /\ AllFull)
    => /\ \A k \in 1..Len(windows) :
            /\ windows[k][1] = 1 + 250000 * (k - 1)
            /\ windows[k][2] = Min(pnts, 250000 * k)
       /\ Len(windows) <= CeilDiv(pnts, 250000)
       /\ Returned_on("internal")
          => /\ Len(windows) = CeilDiv(pnts, 250000)
             /\ BufLen(buff) = pnts
             /\ ret.kind = "bytes" => ret.val = buff

\* 600000 points were fetched in the three windows of the example
C5_Witness ==
    /\ pc = "idle"
    /\ ret.kind = "bytes"
    /\ path = "internal"
    /\ pnts = 600000
    /\ BufLen(ret.val) = 600000
    /\ windows = << <<1, 250000, 250000>>, <<250001, 500000, 250000>>,
                    <<500001, 600000, 100000>> >>

\* C6: an internal-memory fetch in which a sub-range read returned zero bytes
\* has failed: it makes no further data request and does not go on.
C6_ZeroReadFails ==
    path = "internal"
    => \A i \in 1..Len(windows) :
          windows[i][3] = 0
          => /\ i = Len(windows)
             /\ pc = "idle"
             /\ ret.kind = "raised"

\* C7: every buffer the screen path returns has exactly 1200 bytes, whatever
\* point count the preamble reported.
C7_ScreenLength ==
    Returned_on("screen")
    => /\ BufLen(buff) = 1200
       /\ ret.kind = "bytes" => BufLen(ret.val) = 1200

\* a NORMal fetch with a preamble of 1000 points has returned
C7_Witness ==
    /\ pc = "idle"
    /\ ret.kind = "bytes"
    /\ path = "screen"
    /\ mode = "NORMal"
    /\ pnts = 1000

\* the index in sent of the first :WAVeform:PREamble? (0 when none was sent)
PreambleAt ==
    IF \E i \in 1..Len(sent) : sent[i] = ":WAVeform:PREamble?"
    THEN CHOOSE i \in 1..Len(sent) :
            /\ sent[i] = ":WAVeform:PREamble?"
            /\ \A j \in 1..(i - 1) : sent[j] # ":WAVeform:PREamble?"
    ELSE 0

\* C8: on the screen path with pnts < 1200 the driver writes :WAVeform:STARt
\* 1200, then :WAVeform:STARt 1, then reads :WAVeform:STARt?.  If the answer
\* is not 1 it requests the window 1200-pnts+1 .. 1200, prepends 1200-pnts
\* zero bytes and records the mask (leading, 1200-pnts); otherwise it requests
\* 1 .. pnts, appends the zero bytes and records (trailing, 1200-pnts).
C8_PartialScreen ==
    (path = "screen" /\ PreambleAt > 0 /\ pnts < 1200)
    => LET k == PreambleAt
           num == 1200 - pnts
           first == IF readback # 1 THEN 1200 - pnts + 1 ELSE 1
           last == IF readback # 1 THEN 1200 ELSE pnts
       IN  /\ Len(sent) >= k + 1 => sent[k + 1] = ":WAVeform:STARt 1200"
           /\ Len(sent) >= k + 2 => sent[k + 2] = ":WAVeform:STARt 1"
           /\ Len(sent) >= k + 3 => sent[k + 3] = ":WAVeform:STARt?"
           /\ Len(sent) >= k + 4 => sent[k + 4] = ":WAVeform:STARt " \o ToString(first)
           /\ Len(sent) >= k + 5 => sent[k + 5] = ":WAVeform:STOP " \o ToString(last)
           /\ Len(sent) >= k + 6 => sent[k + 6] = ":WAVeform:DATA?"
           /\ Len(windows) <= 1
           /\ Len(windows) = 1 => (windows[1][1] = first /\ windows[1][2] = last)
           /\ Returned_on("screen")
              => /\ buff = IF readback # 1
                           THEN <<Seg("zero", 0, num), Seg("data", first, pnts)>>
                           ELSE <<Seg("data", 1, pnts), Seg("zero", 0, num)>>
                 /\ mask_begin_num = IF readback # 1 THEN <<1, num>> ELSE <<0, num>>

\* a fetch of 1000 points whose start was read back as 201 has returned
C8_Witness ==
    /\ pc = "idle"
    /\ ret.kind = "bytes"
    /\ path = "screen"
    /\ pnts = 1000
    /\ readback = 201
    /\ ret.val = <<Seg("zero", 0, 200), Seg("data", 201, 1000)>>
    /\ mask_begin_num = <<1, 200>>

\* C9: after a screen-path fetch whose preamble reported 1200 points no
\* padding mask is pending, whatever mask was pending before the call.
C9_FullScreenClearsMask ==
    (Returned_on("screen") /\ pnts = 1200) => mask_begin_num = None

\* a full-screen fetch returned after a call that started with a pending mask
C9_Witness ==
    /\ pc = "idle"
    /\ ret.kind = "bytes"
    /\ path = "screen"
    /\ pnts = 1200
    /\ mask_at_call # None
    /\ mask_begin_num = None

\* C10: whenever get_waveform_samples has returned, no padding mask is
\* pending on the instance.
C10_SamplesClearMask ==
    (pc = "idle" /\ op = "get_waveform_samples" /\ ret.kind = "samples")
    => mask_begin_num = None


\* the samples get_waveform_samples returned contain float('nan')
HasNaN(samples) == \E i \in 1..Len(samples) : samples[i].kind = "nan"

\* C11: the samples returned by get_waveform_samples contain NaN only if the
\* transfer made by that same call was a screen-path transfer whose preamble
\* reported fewer than 1200 points.
C11_NaNOnlyFromOwnTransfer ==
    (pc = "idle" /\ op = "get_waveform_samples" /\ ret.kind = "samples"
        /\ HasNaN(ret.val))
    => (path = "screen" /\ pnts < SAMPLES_ON_DISPLAY)


\* C12: get_waveform_samples turns every fetched byte into one voltage (line
\* 206: the unsigned code, minus yorigin, minus yreference, times yincrement),
\* so the returned sequence always has the length of the fetched byte buffer,
\* and it is the converted buffer itself when no mask is pending.
C12_OneSamplePerByte ==
    (pc = "idle" /\ op = "get_waveform_samples" /\ ret.kind = "samples")
    => /\ BufLen(ret.val) = BufLen(buff)
       /\ mask_begin_num = None => ret.val = to_voltages(buff)


\* C13: after a screen-path fetch whose preamble reported pnts < 1200,
\* get_waveform_samples returns 1200 values: the 1200 - pnts padded positions
\* (the first ones for leading padding, the last ones for trailing padding) are
\* NaN, and the other pnts positions are, in order, the voltages of the pnts
\* decoded bytes.
C13_PaddedSamples ==
    (pc = "idle" /\ op = "get_waveform_samples" /\ ret.kind = "samples"
        /\ path = "screen" /\ pnts < SAMPLES_ON_DISPLAY)
    => LET num == SAMPLES_ON_DISPLAY - pnts
       IN  /\ BufLen(ret.val) = SAMPLES_ON_DISPLAY
           /\ ret.val = IF readback # 1
                        THEN <<Seg("nan", 0, num), Seg("volt", num + 1, pnts)>>
                        ELSE <<Seg("volt", 1, pnts), Seg("nan", 0, num)>>

\* samples of a 1000-point screen fetch with leading padding were returned
C13_Witness ==
    /\ pc = "idle"
    /\ op = "get_waveform_samples"
    /\ path = "screen"
    /\ pnts = 1000
    /\ ret.kind = "samples"
    /\ ret.val = <<Seg("nan", 0, 200), Seg("volt", 201, 1000)>>


\* the call in progress, or the last one, is a waveform fetch
IsFetch == op \in {"get_waveform_bytes", "get_waveform_samples"}

\* the position in sent of the first command cmd, 0 if it was not sent
IndexOf(cmd) ==
    IF \E i \in 1..Len(sent) : sent[i] = cmd
    THEN CHOOSE i \in 1..Len(sent) :
            sent[i] = cmd /\ \A j \in 1..(i - 1) : sent[j] # cmd
    ELSE 0

\* cmd was sent, and not before the first command earlier
SentAfter(cmd, earlier) ==
    IndexOf(cmd) > 0 => (IndexOf(earlier) > 0 /\ IndexOf(earlier) < IndexOf(cmd))

\* C14: a RAW fetch whose status query in _get_waveform_bytes_internal found
\* the instrument running sends :STOP before the waveform source is selected
\* and before any data request; and no fetch, in any mode, ever sends :RUN.
C14_RawFetchStops ==
    IsFetch
    => /\ \A i \in 1..Len(sent) : sent[i] # ":RUN"
       /\ (mode = "RAW" /\ path = "internal" /\ pc # "int_running"
             /\ running(last_status))
          => /\ SentAfter(":WAVeform:SOURce " \o channel.name, ":STOP")
             /\ SentAfter(":WAVeform:DATA?", ":STOP")
             /\ pc \notin {"int_stop", "idle"} => IndexOf(":STOP") > 0

\* a RAW fetch found the instrument running, stopped it, and returned
C14_Witness ==
    /\ pc = "idle"
    /\ op = "get_waveform_bytes"
    /\ mode = "RAW"
    /\ last_status = "RUN"
    /\ ret.kind = "bytes"
    /\ IndexOf(":STOP") > 0
    /\ IndexOf(":WAVeform:DATA?") > IndexOf(":STOP")
    /\ ~acquiring


\* the log of an AUTO-depth resolution that took the snapshot (was_running,
\* snapshot_mode) and ran to its end
DepthLog(was_running, snapshot_mode) ==
    <<":ACQuire:MDEPth?", ":TRIGger:STATus?", ":WAVeform:MODE?">>
    \o (IF was_running THEN <<":STOP">> ELSE <<>>)
    \o (IF snapshot_mode = "NORM"
        THEN <<":WAVeform:MODE RAW", ":WAVeform:PREamble?", ":WAVeform:MODE NORM">>
        ELSE <<":WAVeform:PREamble?">>)
    \o (IF was_running THEN <<":RUN">> ELSE <<>>)

IsPrefix(s, t) == Len(s) <= Len(t) /\ SubSeq(t, 1, Len(s)) = s

\* memory_depth_internal_total is in its AUTO branch and has taken its snapshot
DepthSnapshotTaken ==
    /\ op = "memory_depth_internal_total"
    /\ curr_mode # "none"

\* memory_depth_internal_total returned a depth from its AUTO branch
DepthResolved ==
    /\ DepthSnapshotTaken
    /\ pc = "idle"
    /\ ret.kind = "depth"

\* C15: the AUTO-depth resolution sends its commands in this order only: the
\* snapshot of the run state and of the read-mode, :STOP if the snapshot says
\* running, :WAVeform:MODE RAW if the snapshot mode is NORMal, the preamble
\* query, the mode of the snapshot written back, :RUN; :RUN is sent exactly
\* when the snapshot says running, and after the mode was written back.
C15_DepthSequence ==
    /\ DepthSnapshotTaken => IsPrefix(sent, DepthLog(curr_running, curr_mode))
    /\ DepthResolved => sent = DepthLog(curr_running, curr_mode)

\* a resolution on a running instrument in NORMal mode has returned
C15_Witness ==
    /\ DepthResolved
    /\ last_status = "TD"
    /\ curr_running
    /\ sent = <<":ACQuire:MDEPth?", ":TRIGger:STATus?", ":WAVeform:MODE?", ":STOP",
                ":WAVeform:MODE RAW", ":WAVeform:PREamble?", ":WAVeform:MODE NORM",
                ":RUN">>

\* C16: when the AUTO-depth resolution has returned a depth, the instrument's
\* read-mode is the one it had before the call; a running instrument was
\* stopped and restarted last, a stopped one received neither :STOP nor :RUN;
\* and the run state is the snapshotted one unless the instrument changed it
\* on its own.
C16_DepthRestores ==
    DepthResolved
    => /\ ModeAnswer(scope_mode) = ModeAnswer(mode_at_call)
       /\ curr_running => (IndexOf(":STOP") > 0 /\ sent[Len(sent)] = ":RUN")
       /\ ~curr_running => (IndexOf(":STOP") = 0 /\ IndexOf(":RUN") = 0)
       /\ ~scope_touched => acquiring = curr_running

\* a running instrument in NORMal mode is back in NORMal mode and running
C16_Witness ==
    /\ DepthResolved
    /\ curr_running
    /\ mode_at_call = "NORMal"
    /\ IndexOf(":WAVeform:MODE RAW") > 0
    /\ ModeAnswer(scope_mode) = "NORM"
    /\ ~scope_touched
    /\ acquiring

\* C17: when a step of the AUTO-depth resolution fails (the transport raises
\* on a write or a query, or the preamble cannot be parsed), the call ends
\* with the exception, returns no depth, and sends nothing after the command
\* that failed.
C17_DepthFailureSurfaces ==
    (op = "memory_depth_internal_total" /\ fault # 0)
    => /\ pc = "idle"
       /\ ret.kind = "raised"
       /\ ret.val = <<>>
       /\ Len(sent) = fault

\* the preamble of a resolution on a running NORMal-mode scope was unparsable
C17_Witness ==
    /\ DepthSnapshotTaken
    /\ curr_running
    /\ fault = Len(sent)
    /\ sent[fault] = ":WAVeform:PREamble?"
    /\ ret = RetRaised("ValueError")

\* C18: when the transport raises during a waveform fetch, in any chunk, the
\* exception leaves the call, the bytes accumulated so far are not returned,
\* and nothing is sent after the command that failed.
C18_FetchFailurePropagates ==
    (IsFetch /\ fault # 0)
    => /\ pc = "idle"
       /\ ret = RetRaised("TransportError")
       /\ Len(sent) = fault

\* the second data request of a chunked transfer failed
C18_Witness ==
    /\ IsFetch
    /\ path = "internal"
    /\ fault = Len(sent)
    /\ sent[fault] = ":WAVeform:DATA?"
    /\ Len(windows) = 1
    /\ BufLen(buff) = max_byte_len
    /\ ret = RetRaised("TransportError")


\* the positions in sent of the data requests, and how many were sent up to i
DataRequests == {i \in 1..Len(sent) : sent[i] = ":WAVeform:DATA?"}
RequestNumber(i) == Cardinality({j \in DataRequests : j <= i})

\* the window of the k-th data request: taken from its answer, or, for a
\* request that drew no answer, from the locals that hold it
WindowOf(k) ==
    IF k <= Len(windows)
    THEN <<windows[k][1], windows[k][2]>>
    ELSE IF path = "screen" THEN <<starting_at, stopping_at>> ELSE <<pos, end_pos>>

\* C19: in every fetch the waveform source, FORMat BYTE and the read-mode are
\* written, in that order, right before the preamble is read; and every data
\* request is preceded by the STARt and then the STOP of its own window, both
\* written after the previous data request was answered.
C19_CommandOrder ==
    IsFetch
    => /\ PreambleAt > 0
          => /\ PreambleAt > 3
             /\ sent[PreambleAt - 3] = ":WAVeform:SOURce " \o channel.name
             /\ sent[PreambleAt - 2] = ":WAVeform:FORMat BYTE"
             /\ sent[PreambleAt - 1] = ":WAVeform:MODE " \o mode
       /\ \A i \in DataRequests :
            /\ i > PreambleAt + 2
            /\ PreambleAt > 0
            /\ sent[i - 2] = ":WAVeform:STARt " \o ToString(WindowOf(RequestNumber(i))[1])
            /\ sent[i - 1] = ":WAVeform:STOP " \o ToString(WindowOf(RequestNumber(i))[2])
            /\ \A j \in DataRequests : j < i => j < i - 2
            /\ RequestNumber(i) <= Len(windows) + 1

\* a fetch of 600000 points in three chunks has returned
C19_Witness ==
    /\ IsFetch
    /\ pc = "idle"
    /\ ret.kind = "bytes"
    /\ path = "internal"
    /\ Cardinality(DataRequests) = 3
    /\ Len(windows) = 3
    /\ sent[Len(sent) - 2] = ":WAVeform:STARt 500001"
    /\ sent[Len(sent) - 1] = ":WAVeform:STOP 600000"

\* C20: running is true exactly when the answer to :TRIGger:STATus? is one of
\* TD, WAIT, RUN, AUTO: in the snapshot of memory_depth_internal_total, and
\* where _get_waveform_bytes_internal decides whether to send :STOP.
C20_RunningByStatus ==
    /\ (op = "memory_depth_internal_total" /\ last_status # "none")
       => (curr_running <=> last_status \in {"TD", "WAIT", "RUN", "AUTO"})
    /\ pc = "int_stop" => last_status \in {"TD", "WAIT", "RUN", "AUTO"}
    /\ (pc = "int_source" /\ sent[Len(sent)] = ":TRIGger:STATus?")
       => last_status \notin {"TD", "WAIT", "RUN", "AUTO"}

\* the snapshot of memory_depth_internal_total was taken on the answer AUTO
C20_Witness ==
    /\ op = "memory_depth_internal_total"
    /\ pc = "mdep_mode_query"
    /\ last_status = "AUTO"
    /\ sent[Len(sent)] = ":TRIGger:STATus?"
    /\ curr_running


(***************************************************************************)
(* The lists of values the setters choose from.                            *)
(***************************************************************************)
\* the 1-2-5 step after d
NextStep(d) ==
    CASE d.m = 1 -> Dec(2, d.e)
      [] d.m = 2 -> Dec(5, d.e)
      [] d.m = 5 -> Dec(1, d.e + 1)

\* a < b for two numbers with a one-digit mantissa
StepLess(a, b) == a.e < b.e \/ (a.e = b.e /\ a.m < b.m)

Quantities == {"PROBE_RATIO", "TIMEBASE_SCALE", "CHANNEL_SCALE"}

\* the list __init__ keeps for a quantity
PossibleValues(which) ==
    CASE which = "PROBE_RATIO" -> possible_probe_ratio_values
      [] which = "TIMEBASE_SCALE" -> possible_timebase_scale_values
      [] which = "CHANNEL_SCALE" -> possible_channel_scale_values

\* C21: for the probe ratio, the timebase scale and the channel scale alike, the
\* list built by _populate_possible_values starts at the minimum, holds only
\* values m * 10^k with m one of 1, 2, 5, goes from each element to the next
\* 1-2-5 step (so it increases strictly), and ends with the last step that is
\* not above the maximum; this is how __init__ leaves them
C21_PossibleValues ==
    \A which \in Quantities :
        LET values == PossibleValues(which)
            last == values[Len(values)]
        IN  op = "none" =>
            /\ Len(values) >= 1
            /\ values[1] = MinOf(which)
            /\ \A i \in 1..Len(values) : values[i].m \in {1, 2, 5}
            /\ \A i \in 1..(Len(values) - 1) :
                 /\ values[i + 1] = NextStep(values[i])
                 /\ StepLess(values[i], values[i + 1])
            /\ Leq(last, MaxOf(which))
            /\ Less(MaxOf(which), NextStep(last))

\* the three lists as they stand after construction: 0.01 .. 1000, 5e-9 .. 50
\* and 0.001 .. 10
C21_Witness ==
    /\ pc = "idle"
    /\ op = "none"
    /\ Len(possible_probe_ratio_values) = 16
    /\ possible_probe_ratio_values[16] = Dec(1, 3)
    /\ Len(possible_timebase_scale_values) = 31
    /\ possible_timebase_scale_values[31] = Dec(5, 1)
    /\ Len(possible_channel_scale_values) = 13
    /\ possible_channel_scale_values[13] = Dec(1, 1)


(***************************************************************************)
(* The value a setter writes.                                              *)
(***************************************************************************)
\* a and b are the same number
SameNumber(a, b) == AbsDiff(a, b) = <<0, 0>>

\* values[i] is nearest to request, and the first of the values as near
FirstNearest(values, i, request) ==
    \A j \in 1..Len(values) :
        /\ ~LimbsLess(AbsDiff(values[j], request), AbsDiff(values[i], request))
        /\ AbsDiff(values[j], request) = AbsDiff(values[i], request) => i <= j

\* the command a rounding setter writes for a value
SetterCommand(value) ==
    IF op = "timebase_scale"
    THEN ":TIMebase:MAIN:SCALe " \o Text(value)
    ELSE ":" \o channel.name \o ":PROBe " \o Text(value)

\* C22: the timebase_scale setter and set_probe_ratio write, as their only
\* command, the candidate whose absolute difference to the request is smallest,
\* and the lower one (the first in the list) where two are equally near: 0.03
\* is written as 0.02, 1.5 as 1, 3.5 as 2 and 7.5 as 5
C22_NearestLowerOnTie ==
    (op \in {"timebase_scale", "set_probe_ratio"} /\ pc = "idle" /\ ret.kind = "done") =>
        LET values == IF op = "timebase_scale"
                      THEN possible_timebase_scale_values
                      ELSE possible_probe_ratio_values
        IN  /\ \E i \in 1..Len(values) :
                 /\ new_value = values[i]
                 /\ FirstNearest(values, i, requested)
            /\ sent = <<SetterCommand(new_value)>>
            /\ requested = Dec(3, -2) => new_value = Dec(2, -2)
            /\ requested = Dec(15, -1) => new_value = Dec(1, 0)
            /\ requested = Dec(35, -1) => new_value = Dec(2, 0)
            /\ requested = Dec(75, -1) => new_value = Dec(5, 0)

\* the timebase was asked to be 3.5, as far from 2 as from 5, and 2 was written
C22_Witness ==
    /\ op = "timebase_scale"
    /\ pc = "idle"
    /\ ret.kind = "done"
    /\ requested = Dec(35, -1)
    /\ sent = <<":TIMebase:MAIN:SCALe 2e0">>


(***************************************************************************)
(* set_channel_scale.                                                      *)
(***************************************************************************)
\* C24: with use_closest_match set_channel_scale first queries the probe ratio
\* of the channel and then writes the value nearest to the volts asked for
\* among the default channel-scale steps each multiplied by that ratio (70 V
\* with a 10x probe is written as 50 V); without it, it sends no query and
\* writes the volts asked for as they are
C24_ChannelScale ==
    (op = "set_channel_scale" /\ pc = "idle" /\ ret.kind = "done") =>
        IF use_closest_match
        THEN LET steps == [i \in 1..Len(possible_channel_scale_values) |->
                              Times(possible_channel_scale_values[i], probe_ratio)]
             IN  /\ sent = <<":" \o channel.name \o ":PROBe?",
                             ":" \o channel.name \o ":SCALe " \o Text(new_value)>>
                 /\ \E i \in 1..Len(steps) :
                      /\ new_value = steps[i]
                      /\ FirstNearest(steps, i, requested)
                 /\ (requested = Dec(70, 0) /\ probe_ratio = Dec(10, 0)) =>
                        SameNumber(new_value, Dec(50, 0))
        ELSE /\ sent = <<":" \o channel.name \o ":SCALe " \o Text(requested)>>
             /\ new_value = requested

\* 70 V were asked for on a channel that answered a probe ratio of 10, and 50 V
\* were written
C24_Witness ==
    /\ op = "set_channel_scale"
    /\ pc = "idle"
    /\ ret.kind = "done"
    /\ use_closest_match
    /\ requested = Dec(70, 0)
    /\ probe_ratio = Dec(10, 0)
    /\ Len(sent) = 2
    /\ SameNumber(new_value, Dec(50, 0))


(***************************************************************************)
(* Reading the preamble.                                                   *)
(***************************************************************************)
PreambleQueries == {i \in 1..Len(sent) : sent[i] = ":WAVeform:PREamble?"}

\* C23: every read of waveform_preamble or waveform_preamble_dict sends one
\* :WAVeform:PREamble? query of its own and returns the values of the answer to
\* that query (get_waveform_samples, which reads the preamble for the fetch and
\* again for the conversion, sends two); an answer that does not have exactly
\* 10 comma-separated fields ends the read with an error and no preamble
C23_PreambleQueriedEachTime ==
    /\ (op \in {"waveform_preamble", "waveform_preamble_dict"} /\ pc = "idle") =>
         /\ sent = <<":WAVeform:PREamble?">>
         /\ ret.kind \in {"preamble", "raised"}
         /\ ret.kind = "preamble" => ret.val = <<wp_answer.pnts>>
         /\ (wp_answer # NoAnswer /\ wp_answer.nfields # 10) =>
                (ret.kind = "raised" /\ ret.exc = "AssertionError")
    /\ (op = "get_waveform_samples" /\ pc = "idle" /\ ret.kind = "samples") =>
         Cardinality(PreambleQueries) = 2

\* the preamble was read after an earlier read, and an answer of 9 fields was
\* rejected
C23_Witness ==
    /\ op = "waveform_preamble_dict"
    /\ pc = "idle"
    /\ wp_answer.nfields = 9
    /\ ret = RetRaised("AssertionError")
    /\ sent = <<":WAVeform:PREamble?">>


(***************************************************************************)
(* The windows of an internal-memory fetch after a short answer.           *)
(***************************************************************************)
\* C25: in every sub-range request of an internal-memory fetch, whatever the
\* earlier requests returned, the window written to the instrument satisfies
\* 1 <= start <= stop <= pnts and covers at most 250000 points
C25_WindowsInRange ==
    path = "internal" =>
        \A i \in 1..Len(windows) :
            LET start == windows[i][1]
                stop == windows[i][2]
            IN  /\ 1 <= start
                /\ start <= stop
                /\ stop <= pnts
                /\ stop - start + 1 <= max_byte_len


(***************************************************************************)
(* MAXimum mode and a trigger status that changes on its own.              *)
(***************************************************************************)
\* C26: a get_waveform_bytes call in MAXimum mode never sends :STOP, also when
\* the trigger status changes on its own between the status query that
\* selects the path and the status query inside the internal-memory path
C26_MaximumNeverStops ==
    (op = "get_waveform_bytes" /\ mode = "MAXimum") =>
        \A i \in 1..Len(sent) : sent[i] # ":STOP"


(***************************************************************************)
(* memory_depth_curr_waveform directly after a fetch.                      *)
(***************************************************************************)
\* the answers of the instrument to the read are those of the state the fetch
\* left it in: acquiring if and only if the fetch took the screen path for a
\* MAXimum request, and, where the internal depth was asked for, as deep as
\* the fetch found it
AnswersAsFetchLeftIt ==
    /\ sel_status # "none" => (running(sel_status) <=> fetched.path = "screen")
    /\ (mdep # NoDepth /\ mdep.text # "AUTO") =>
         /\ ~curr_running
         /\ int_float(mdep) = fetched.len

\* C27: memory_depth_curr_waveform read directly after a get_waveform_bytes
\* call that returned, from an instrument nobody touched in between, is the
\* length of the returned buffer: 1200 when the read mode is NORMal or the
\* instrument is acquiring, the total internal depth otherwise
C27_DepthIsBufferLength ==
    (op = "memory_depth_curr_waveform" /\ pc = "idle" /\ ret.kind = "depth"
        /\ fetched # NoFetch /\ AnswersAsFetchLeftIt) =>
        /\ ret.val = <<fetched.len>>
        /\ fetched.path = "screen" => ret.val = <<SAMPLES_ON_DISPLAY>>
        /\ fetched.mode = "NORMal" <=> sent = <<":WAVeform:MODE?">>
        /\ fetched.path = "screen" <=> Len(sent) <= 2

\* 600000 bytes came from the internal memory in MAXimum mode, and the depth
\* read after it, resolved through the preamble, is 600000
C27_Witness ==
    /\ op = "memory_depth_curr_waveform"
    /\ pc = "idle"
    /\ fetched = [path |-> "internal", mode |-> "MAXimum", len |-> 600000]
    /\ AnswersAsFetchLeftIt
    /\ mdep = Depth(600000)
    /\ ret = RetDepth(600000)


(***************************************************************************)
(* memory_depth_internal_total when the depth is set to a number.          *)
(***************************************************************************)
\* the numbers the numeric answers stand for
DepthNumber(text) ==
    CASE text = "12000" -> 12000
      [] text = "600000" -> 600000
      [] text = "2.4e+07" -> 24000000

MaskShape ==
    \/ mask_begin_num = None
    \/ /\ Len(mask_begin_num) = 2
       /\ mask_begin_num[1] \in {0, 1}
       /\ mask_begin_num[2] \in 1..SAMPLES_ON_DISPLAY

\* the mask is the one 1200 - p calls for
MaskFor(p) ==
    IF p < SAMPLES_ON_DISPLAY
    THEN mask_begin_num # None /\ mask_begin_num[2] = SAMPLES_ON_DISPLAY - p
    ELSE mask_begin_num = None

\* the call under way or just over is a fetch whose screen path received the
\* preamble; the same, and its data request was answered in full, so that the
\* screen path returned
ScreenFetchReported == IsFetch /\ path = "screen" /\ pnts > 0
ScreenFetchReturned ==
    ScreenFetchReported /\ Len(windows) = 1 /\ windows[1][3] = pnts

\* C28 as stated: in every state the pending mask is empty or a side and a
\* count of 1 .. 1200, the count being 1200 minus the point count reported to
\* the most recent screen-path fetch; only the screen path writes it
C28_MaskOfLastScreenFetch ==
    /\ MaskShape
    /\ mask_begin_num # mask_at_call => (IsFetch /\ path = "screen")
    /\ (ScreenFetchReported /\ pc = "idle" /\ mask_begin_num # None) =>
           mask_begin_num[2] = SAMPLES_ON_DISPLAY - pnts

\* C28, amended: in every state the pending mask is empty or a side and a count
\* of 1 .. 1200; a screen-path fetch that returns leaves the mask for its own
\* point count (count 1200 - pnts if pnts < 1200, empty otherwise); the mask a
\* call finds is changed by nothing but a screen-path fetch that returns
C28_MaskOfLastReturnedScreenFetch ==
    /\ MaskShape
    /\ mask_begin_num # mask_at_call => ScreenFetchReturned
    /\ ScreenFetchReturned => MaskFor(pnts)

\* a screen fetch that was told of 1199 points failed on a short answer and
\* the mask of an earlier fetch of 1000 points is still pending
C28_Witness ==
    /\ ScreenFetchReported
    /\ ~ScreenFetchReturned
    /\ pc = "idle"
    /\ ret = RetRaised("AssertionError")
    /\ pnts = 1199
    /\ mask_begin_num = <<1, 200>>
    /\ mask_at_call = <<1, 200>>

=============================================================================
